---- MODULE Spec2Model ----
(***************************************************************************)
(* Goesi: a client for the EVE Swagger Interface.  The library keeps one   *)
(* response cache (cache.go) keyed by the request URL and consults it on   *)
(* every Get; Post, WhoAmI and Authenticate go straight to the transport.  *)
(* The client code modelled here is the package goesi listing that sits in *)
(* src/README.md (lines 57-283); src/lib.go is an earlier variant of the   *)
(* same file without the cache.                                            *)
(***************************************************************************)
EXTENDS Integers, Sequences, FiniteSets, TLC

\* The wall clock runs over the ticks 0..MaxTime.
MaxTime == 2

\* The texts handed to getExpiration on its own spell the ticks 0..MaxWall.
MaxWall == 12

\* Go's nil: a nil *gabs.Container, a nil error's value, no header sent.
Nil == "nil"

BaseURL == "https://esi.tech.ccp.is/"
TokenURL == "https://login.eveonline.com/oauth/token"
VerifyURL == "https://login.eveonline.com/oauth/verify"

\* ESI.Version as set by New.
Version == "latest"

StatusOK == 200
StatusBadRequest == 400
Statuses == {StatusOK, StatusBadRequest}

\* Parsed JSON documents (gabs containers), and a body that is not JSON.
Docs == {"doc1", "doc2"}
NotJSON == "<html>"
Bodies == Docs \cup {NotJSON}

(***************************************************************************)
(* Strings are opaque to TLC, so a path is kept as the sequence of its     *)
(* pieces, a format verb being a piece of its own; Join flattens the       *)
(* pieces into the string the code builds.                                 *)
(***************************************************************************)
RECURSIVE Join(_)
Join(pieces) ==
    IF pieces = <<>> THEN "" ELSE Head(pieces) \o Join(Tail(pieces))

\* fmt.Sprintf(path, args...) for the verb %d: each verb takes the next
\* argument, a verb without one prints %!d(MISSING), and arguments left
\* over are reported in a trailing %!(EXTRA ...).
RECURSIVE Extra(_)
Extra(args) ==
    IF args = <<>> THEN ""
    ELSE "int=" \o ToString(Head(args))
         \o (IF Tail(args) = <<>> THEN "" ELSE ", ") \o Extra(Tail(args))

RECURSIVE Sprintf(_, _)
Sprintf(path, args) ==
    IF path = <<>>
    THEN IF args = <<>> THEN <<>> ELSE << "%!(EXTRA " \o Extra(args) \o ")" >>
    ELSE IF Head(path) = "%d"
         THEN IF args = <<>>
              THEN <<"%!d(MISSING)">> \o Sprintf(Tail(path), args)
              ELSE <<ToString(Head(args))>> \o Sprintf(Tail(path), Tail(args))
         ELSE <<Head(path)>> \o Sprintf(Tail(path), args)

\* The request URL of Get and Post: BaseURL + Version + "/" + path + "/".
MakeURL(pieces) == BaseURL \o Version \o "/" \o Join(pieces) \o "/"

\* http.NewRequest fails when net/url cannot parse the URL; of the strings
\* built here those are the ones with a "%" that starts no hex escape.
IsBadEscape(piece) ==
    \/ piece = "%d"
    \/ piece = "%!d(MISSING)"
    \/ \E n \in 0..9 : piece = "%!(EXTRA int=" \o ToString(n) \o ")"

NewRequestFails(pieces) == \E i \in 1..Len(pieces) : IsBadEscape(pieces[i])

(***************************************************************************)
(* The Expires header.  h.Get("Expires") is "" when the header is absent;  *)
(* otherwise it is some text, which either has the layout                  *)
(* "Mon, 02 Jan 2006 15:04:05 MST" or has not.  A text of that layout is   *)
(* kept as the wall-clock tick it spells and its zone abbreviation.        *)
(***************************************************************************)
Zones == {"GMT", "EST"}

NoExpires == [form |-> "absent", wall |-> 0, zone |-> ""]
BadExpires == [form |-> "malformed", wall |-> 0, zone |-> ""]
GoodExpires == [form : {"rfc1123"}, wall : 0..MaxTime, zone : Zones]
ExpiresValues == {NoExpires, BadExpires} \cup GoodExpires

\* The process's time.Local, which time.Parse consults for abbreviations.
Locations == {"UTC", "America/New_York"}

\* Location.lookupName: the offset from UTC, in ticks, of an abbreviation
\* the location uses (EST is one tick behind UTC here).
KnowsZone(loc, zone) == loc = "America/New_York" /\ zone = "EST"
ZoneOffset(loc, zone) == IF KnowsZone(loc, zone) THEN 0 - 1 ELSE 0

\* time.Time{}, the zero time: an instant before every tick.
ZeroTime == 0 - 1

\* getExpiration: time.Parse under the one layout.  An abbreviation that
\* time.Local knows shifts the wall clock by its offset; any other gets a
\* fabricated zone of offset 0, so the wall clock is read as UTC.
getExpiration(s, loc) ==
    IF s.form # "rfc1123"
    THEN [t |-> ZeroTime, err |-> TRUE]
    ELSE [t |-> s.wall - ZoneOffset(loc, s.zone), err |-> FALSE]

\* time.Time.Before
Before(t, u) == t < u

(***************************************************************************)
(* Cache: map[string]CacheEntry, a function from URLs to entries.          *)
(***************************************************************************)
EmptyCache == [u \in {} |-> Nil]

CacheEntry(d, expires) == [Data |-> d, Expires |-> expires]

Delete(c, u) == [x \in DOMAIN c \ {u} |-> c[x]]

Store(c, u, entry) == [x \in DOMAIN c \cup {u} |-> IF x = u THEN entry ELSE c[x]]

\* Cache.get with the operands of Before exchanged: an entry is dropped
\* while the clock is still before its expiry.
get_swapped(c, u, t) ==
    IF u \notin DOMAIN c
    THEN [cache |-> c, data |-> Nil]
    ELSE IF Before(t, c[u].Expires)
         THEN [cache |-> Delete(c, u), data |-> Nil]
         ELSE [cache |-> c, data |-> c[u].Data]

\* Cache.get that also drops an entry whose expiry is the current clock
\* reading.
get_atOrBefore(c, u, t) ==
    IF u \notin DOMAIN c
    THEN [cache |-> c, data |-> Nil]
    ELSE IF c[u].Expires <= t
         THEN [cache |-> Delete(c, u), data |-> Nil]
         ELSE [cache |-> c, data |-> c[u].Data]

\* Cache.get without the expiration check.
get_noExpiry(c, u, t) ==
    IF u \notin DOMAIN c
    THEN [cache |-> c, data |-> Nil]
    ELSE [cache |-> c, data |-> c[u].Data]

\* Cache.get that drops every expired entry it passes, not the requested
\* one alone.
get_sweeps(c, u, t) ==
    LET kept == [x \in {y \in DOMAIN c : ~Before(c[y].Expires, t)} |-> c[x]]
    IN  IF u \notin DOMAIN c
        THEN [cache |-> kept, data |-> Nil]
        ELSE IF Before(c[u].Expires, t)
             THEN [cache |-> kept, data |-> Nil]
             ELSE [cache |-> kept, data |-> c[u].Data]

\* Cache.get at clock reading t: the map afterwards and the value returned.
get(c, u, t) ==
    IF u \notin DOMAIN c
    THEN [cache |-> c, data |-> Nil]
    ELSE IF Before(c[u].Expires, t)
         THEN [cache |-> Delete(c, u), data |-> Nil]
         ELSE [cache |-> c, data |-> c[u].Data]

\* Cache.set that stores the entry before it looks at the parse error.
set_storesFirst(c, u, d, h, loc) ==
    LET e == getExpiration(h, loc)
    IN  [cache |-> Store(c, u, CacheEntry(d, e.t)), err |-> e.err]

\* Cache.set that keeps an entry already in the map.
set_keepsFirst(c, u, d, h, loc) ==
    LET e == getExpiration(h, loc)
    IN  IF e.err
        THEN [cache |-> c, err |-> TRUE]
        ELSE IF u \in DOMAIN c
             THEN [cache |-> c, err |-> FALSE]
             ELSE [cache |-> Store(c, u, CacheEntry(d, e.t)), err |-> FALSE]

\* Cache.set that never shortens the lifetime of an entry it overwrites.
set_extends(c, u, d, h, loc) ==
    LET e == getExpiration(h, loc)
    IN  IF e.err
        THEN [cache |-> c, err |-> TRUE]
        ELSE IF u \in DOMAIN c /\ Before(e.t, c[u].Expires)
             THEN [cache |-> Store(c, u, CacheEntry(d, c[u].Expires)), err |-> FALSE]
             ELSE [cache |-> Store(c, u, CacheEntry(d, e.t)), err |-> FALSE]

\* Cache.set: the map afterwards and whether an error is returned.
set(c, u, d, h, loc) ==
    LET e == getExpiration(h, loc)
    IN  IF e.err
        THEN [cache |-> c, err |-> TRUE]
        ELSE [cache |-> Store(c, u, CacheEntry(d, e.t)), err |-> FALSE]

(***************************************************************************)
(* State.                                                                  *)
(*   now           the reading of time.Now().UTC()                         *)
(*   Local         the process's time.Local                                *)
(*   cache         *e.cache                                                *)
(*   AccessToken, RefreshToken   the fields of ESI                         *)
(*   last          the last call: its name, the URL it built (for get and  *)
(*                 set, the key), the number of calls of e.client.Do it    *)
(*                 made, the Authorization header of the request, the      *)
(*                 document it returned (for set, the one passed in),      *)
(*                 whether it returned an error, and for a Get that        *)
(*                 returns a fetched document the status of the response   *)
(*   fetched       history: per URL, the entry that Get last stored for    *)
(*                 it, since the last ClearCache                           *)
(*   replaced      history: the entry that the last run of Cache.set       *)
(*                 found under its key, NoEntry if it found none           *)
(*   esi           the other fields of ESI: Version, ClientID,             *)
(*                 ClientSecret, ClientCallbackURL, UserAgent and Scope    *)
(*   callers       the calls in flight when several goroutines share the   *)
(*                 client: per goroutine, its position and its locals      *)
(***************************************************************************)
VARIABLES now, Local, cache, AccessToken, RefreshToken, last, fetched, replaced,
          esi, callers

vars == <<now, Local, cache, AccessToken, RefreshToken, last, fetched, replaced,
          esi, callers>>

Result(op, url, calls, auth, doc, err) ==
    [op |-> op, url |-> url, calls |-> calls, auth |-> auth, doc |-> doc, err |-> err,
     status |-> 0]

NoEntry == CacheEntry(Nil, 0)
Found(c, u) == IF u \in DOMAIN c THEN c[u] ELSE NoEntry

AuthorizeURL == "https://login.eveonline.com/oauth/authorize"

\* New: the fields of ESI other than the client, the cache and the tokens.
New(clientID, clientSecret, clientCallbackURL) ==
    [ Version |-> Version,
      ClientID |-> clientID,
      ClientSecret |-> clientSecret,
      ClientCallbackURL |-> clientCallbackURL,
      UserAgent |-> "github.com/Celeo/Goesi",
      Scope |-> "" ]

\* The goroutines that may share one client, and the state of one that is
\* in no call.
Goroutines == {"g1", "g2"}
Idle == [pc |-> "idle", url |-> "", c |-> "", entry |-> Nil, doc |-> Nil]

\* New: an empty cache and empty tokens.
Init ==
    /\ now = 0
    /\ Local \in Locations
    /\ cache = EmptyCache
    /\ AccessToken = ""
    /\ RefreshToken = ""
    /\ last = Result("New", "", 0, Nil, Nil, FALSE)
    /\ fetched = EmptyCache
    /\ replaced = NoEntry
    /\ esi = New("clientID", "clientSecret", "clientCallbackURL")
    /\ callers = [g \in Goroutines |-> Idle]

\* setupHeaders: the Authorization header of a Get, Post or WhoAmI request.
setupHeaders(token) == IF token # "" THEN "Bearer " \o token ELSE Nil

\* What e.client.Do can hand back: an error, or a response with a status,
\* a body and an Expires header.  Get reads the body and the header; Post
\* and WhoAmI read the body alone, so their responses are drawn with two
\* of the header's values.
TransportError == [err |-> TRUE, status |-> 0, body |-> NotJSON, Expires |-> NoExpires]
Response(status, body, expires) ==
    [err |-> FALSE, status |-> status, body |-> body, Expires |-> expires]
Responses ==
    {TransportError}
    \cup {Response(st, NotJSON, NoExpires) : st \in Statuses}
    \cup {Response(st, d, h) : st \in Statuses, d \in Docs, h \in ExpiresValues}
UncachedResponses ==
    {r \in Responses :
        r.Expires \in {NoExpires, [form |-> "rfc1123", wall |-> MaxTime, zone |-> "GMT"]}}

\* The arguments Get is called with: a path and its format arguments.
GetCalls ==
    { [path |-> <<"wars">>, args |-> <<>>],
      [path |-> <<"wars/", "%d">>, args |-> <<1>>],
      [path |-> <<"wars/", "%d">>, args |-> <<>>] }

\* The paths Post is called with (Post does not format its path).
PostPaths == { <<"wars">>, <<"wars/1">>, <<"wars/", "%d">> }

\* The URL each call builds and whether http.NewRequest rejects it, worked
\* out once per call.
GetURL == [call \in GetCalls |-> MakeURL(Sprintf(call.path, call.args))]
GetURLFails == [call \in GetCalls |-> NewRequestFails(Sprintf(call.path, call.args))]
PostURL == [path \in PostPaths |-> MakeURL(path)]
PostURLFails == [path \in PostPaths |-> NewRequestFails(path)]

\* ESI.Get that returns the error of e.cache.set instead of dropping it.
Fetch_returnsSetError(url, c, resp) ==
    IF resp.err \/ resp.body = NotJSON
    THEN /\ cache' = c
         /\ last' = Result("Get", url, 1, setupHeaders(AccessToken), Nil, TRUE)
         /\ UNCHANGED <<fetched, replaced>>
    ELSE LET stored == set(c, url, resp.body, resp.Expires, Local)
         IN  /\ cache' = stored.cache
             /\ last' = IF stored.err
                        THEN Result("Get", url, 1, setupHeaders(AccessToken), Nil, TRUE)
                        ELSE [Result("Get", url, 1, setupHeaders(AccessToken), resp.body, FALSE)
                                 EXCEPT !.status = resp.status]
             /\ replaced' = Found(c, url)
             /\ fetched' = LET e == getExpiration(resp.Expires, Local)
                           IN  IF e.err THEN fetched
                               ELSE Store(fetched, url, CacheEntry(resp.body, e.t))

\* ESI.Get that calls e.client.Do a second time when the first call fails,
\* the second call failing too.
Fetch_retries(url, c, resp) ==
    IF resp.err \/ resp.body = NotJSON
    THEN /\ cache' = c
         /\ last' = Result("Get", url, IF resp.err THEN 2 ELSE 1,
                           setupHeaders(AccessToken), Nil, TRUE)
         /\ UNCHANGED <<fetched, replaced>>
    ELSE LET stored == set(c, url, resp.body, resp.Expires, Local)
         IN  /\ cache' = stored.cache
             /\ last' = [Result("Get", url, 1, setupHeaders(AccessToken), resp.body, FALSE)
                           EXCEPT !.status = resp.status]
             /\ replaced' = Found(c, url)
             /\ fetched' = LET e == getExpiration(resp.Expires, Local)
                           IN  IF e.err THEN fetched
                               ELSE Store(fetched, url, CacheEntry(resp.body, e.t))

\* ESI.Get that stores the response of a request that succeeded only.
Fetched_okOnly(url, c, resp, loc) ==
    IF resp.err \/ resp.body = NotJSON
    THEN [cache |-> c, doc |-> Nil, err |-> TRUE]
    ELSE IF resp.status = StatusOK
         THEN [ cache |-> set(c, url, resp.body, resp.Expires, loc).cache,
                doc |-> resp.body, err |-> FALSE ]
         ELSE [cache |-> c, doc |-> resp.body, err |-> FALSE]

\* What ESI.Get makes of the answer of e.client.Do: the map afterwards, the
\* document returned and whether an error is returned.  The error of
\* e.cache.set is dropped.
Fetched(url, c, resp, loc) ==
    IF resp.err \/ resp.body = NotJSON
    THEN [cache |-> c, doc |-> Nil, err |-> TRUE]
    ELSE [ cache |-> set(c, url, resp.body, resp.Expires, loc).cache,
           doc |-> resp.body, err |-> FALSE ]

\* ESI.Get from e.client.Do on, for a URL the cache did not answer: c is
\* the map as Cache.get left it, resp what the transport hands back.
Fetch(url, c, resp) ==
    LET r == Fetched(url, c, resp, Local)
    IN  /\ cache' = r.cache
        /\ IF r.err
           THEN /\ last' = Result("Get", url, 1, setupHeaders(AccessToken), Nil, TRUE)
                /\ UNCHANGED <<fetched, replaced>>
           ELSE /\ last' = [Result("Get", url, 1, setupHeaders(AccessToken), r.doc, FALSE)
                              EXCEPT !.status = resp.status]
                /\ replaced' = Found(c, url)
                /\ fetched' = LET e == getExpiration(resp.Expires, Local)
                              IN  IF e.err THEN fetched
                                  ELSE Store(fetched, url, CacheEntry(resp.body, e.t))

\* ESI.Get
Get(call) ==
    LET url == GetURL[call]
        looked == get(cache, url, now)
    IN  /\ UNCHANGED <<now, Local, esi, callers, AccessToken, RefreshToken>>
        /\ IF looked.data # Nil
           THEN /\ cache' = looked.cache
                /\ last' = Result("Get", url, 0, Nil, looked.data, FALSE)
                /\ UNCHANGED <<fetched, replaced>>
           ELSE IF GetURLFails[call]
           THEN /\ cache' = looked.cache
                /\ last' = Result("Get", url, 0, Nil, Nil, TRUE)
                /\ UNCHANGED <<fetched, replaced>>
           ELSE \E resp \in Responses : Fetch(url, looked.cache, resp)

\* ESI.Post that looks into the cache first, as Get does.
Post_cached(path) ==
    LET url == PostURL[path]
        auth == setupHeaders(AccessToken)
        looked == get(cache, url, now)
    IN  /\ UNCHANGED <<now, Local, esi, callers, AccessToken, RefreshToken, fetched, replaced>>
        /\ cache' = looked.cache
        /\ IF looked.data # Nil
           THEN last' = Result("Post", url, 0, Nil, looked.data, FALSE)
           ELSE IF PostURLFails[path]
           THEN last' = Result("Post", url, 0, Nil, Nil, TRUE)
           ELSE \E resp \in UncachedResponses :
                IF resp.err \/ resp.body = NotJSON
                THEN last' = Result("Post", url, 1, auth, Nil, TRUE)
                ELSE last' = Result("Post", url, 1, auth, resp.body, FALSE)

\* ESI.Post that stores the response it gets under its URL, as Get does.
Post_stores(path) ==
    LET url == PostURL[path]
        auth == setupHeaders(AccessToken)
    IN  /\ UNCHANGED <<now, Local, esi, callers, AccessToken, RefreshToken, fetched, replaced>>
        /\ IF PostURLFails[path]
           THEN /\ last' = Result("Post", url, 0, Nil, Nil, TRUE)
                /\ cache' = cache
           ELSE \E resp \in UncachedResponses :
                IF resp.err \/ resp.body = NotJSON
                THEN /\ last' = Result("Post", url, 1, auth, Nil, TRUE)
                     /\ cache' = cache
                ELSE /\ last' = Result("Post", url, 1, auth, resp.body, FALSE)
                     /\ cache' = set(cache, url, resp.body, resp.Expires, Local).cache

\* ESI.Post
Post(path) ==
    LET url == PostURL[path]
        auth == setupHeaders(AccessToken)
    IN  /\ UNCHANGED <<now, Local, esi, callers, cache, AccessToken, RefreshToken, fetched, replaced>>
        /\ IF PostURLFails[path]
           THEN last' = Result("Post", url, 0, Nil, Nil, TRUE)
           ELSE \E resp \in UncachedResponses :
                IF resp.err \/ resp.body = NotJSON
                THEN last' = Result("Post", url, 1, auth, Nil, TRUE)
                ELSE last' = Result("Post", url, 1, auth, resp.body, FALSE)

\* ESI.WhoAmI
WhoAmI ==
    /\ UNCHANGED <<now, Local, esi, callers, cache, AccessToken, RefreshToken, fetched, replaced>>
    /\ \E resp \in UncachedResponses :
         IF resp.err \/ resp.body = NotJSON
         THEN last' = Result("WhoAmI", VerifyURL, 1, setupHeaders(AccessToken), Nil, TRUE)
         ELSE last' = Result("WhoAmI", VerifyURL, 1, setupHeaders(AccessToken), resp.body, FALSE)

\* ESI.ClearCache that makes the new map and does not assign it to e.cache.
ClearCache_unassigned ==
    /\ cache' = cache
    /\ fetched' = EmptyCache
    /\ last' = Result("ClearCache", "", 0, Nil, Nil, FALSE)
    /\ UNCHANGED <<now, Local, esi, callers, AccessToken, RefreshToken, replaced>>

\* ESI.ClearCache
ClearCache ==
    /\ cache' = EmptyCache
    /\ fetched' = EmptyCache
    /\ last' = Result("ClearCache", "", 0, Nil, Nil, FALSE)
    /\ UNCHANGED <<now, Local, esi, callers, AccessToken, RefreshToken, replaced>>

\* The clock advances between calls.
Tick ==
    /\ now < MaxTime
    /\ now' = now + 1
    /\ UNCHANGED <<Local, esi, callers, cache, AccessToken, RefreshToken, last, fetched, replaced>>

\* What the token endpoint can hand back to Authenticate: a transport
\* error, a body that cannot be read, or a status and a body.  A JSON
\* object body is kept as the two fields Authenticate reads from it, a
\* field the object lacks being "", as json.Unmarshal leaves it.
TokenPairs ==
    { [access_token |-> "", refresh_token |-> ""],
      [access_token |-> "tokA", refresh_token |-> "refA"] }
NoPair == [access_token |-> "", refresh_token |-> ""]
AuthBody(kind, pair) ==
    [kind |-> kind, access_token |-> pair.access_token, refresh_token |-> pair.refresh_token]
AuthBodies ==
    {AuthBody("empty", NoPair), AuthBody("mismatch", NoPair)}
    \cup {AuthBody("object", p) : p \in TokenPairs}
AuthResponses ==
    [err : {"transport", "read"}, status : {0}, body : {AuthBody("empty", NoPair)}]
    \cup [err : {Nil}, status : Statuses, body : AuthBodies]

Codes == {"code"}

\* ESI.Authenticate that takes the tokens out of the body before it looks
\* at the status.
Exchange_parsesFirst(code, resp) ==
    /\ UNCHANGED <<now, Local, esi, callers, cache, fetched, replaced>>
    /\ IF resp.err # Nil \/ resp.body.kind # "object"
       THEN /\ last' = Result("Authenticate", TokenURL, 1, "Basic", Nil, TRUE)
            /\ UNCHANGED <<AccessToken, RefreshToken>>
       ELSE /\ AccessToken' = resp.body.access_token
            /\ RefreshToken' = resp.body.refresh_token
            /\ last' = Result("Authenticate", TokenURL, 1, "Basic", Nil,
                              resp.status # StatusOK)

\* ESI.Authenticate that starts over with a new cache once it has tokens.
Exchange_newCache(code, resp) ==
    /\ UNCHANGED <<now, Local, esi, callers, replaced>>
    /\ IF \/ resp.err # Nil
          \/ resp.body.kind = "empty"
          \/ resp.status # StatusOK
          \/ resp.body.kind = "mismatch"
       THEN /\ last' = Result("Authenticate", TokenURL, 1, "Basic", Nil, TRUE)
            /\ UNCHANGED <<AccessToken, RefreshToken, cache, fetched>>
       ELSE /\ AccessToken' = resp.body.access_token
            /\ RefreshToken' = resp.body.refresh_token
            /\ cache' = EmptyCache
            /\ fetched' = EmptyCache
            /\ last' = Result("Authenticate", TokenURL, 1, "Basic", Nil, FALSE)

\* ESI.Authenticate from e.client.Do on: resp is what the token endpoint
\* hands back.
Exchange(code, resp) ==
    /\ UNCHANGED <<now, Local, esi, callers, cache, fetched, replaced>>
    /\ IF \/ resp.err # Nil
          \/ resp.body.kind = "empty"
          \/ resp.status # StatusOK
          \/ resp.body.kind = "mismatch"
       THEN /\ last' = Result("Authenticate", TokenURL, 1, "Basic", Nil, TRUE)
            /\ UNCHANGED <<AccessToken, RefreshToken>>
       ELSE /\ AccessToken' = resp.body.access_token
            /\ RefreshToken' = resp.body.refresh_token
            /\ last' = Result("Authenticate", TokenURL, 1, "Basic", Nil, FALSE)

\* ESI.Authenticate
Authenticate(code) == \E resp \in AuthResponses : Exchange(code, resp)

\* fmt.Sprintf(format, args...) for the verb %s with an argument for every
\* verb.
RECURSIVE SprintfS(_, _)
SprintfS(format, args) ==
    IF format = <<>> THEN <<>>
    ELSE IF Head(format) = "%s"
         THEN <<Head(args)>> \o SprintfS(Tail(format), Tail(args))
         ELSE <<Head(format)>> \o SprintfS(Tail(format), args)

\* The format of GetAuthorizeURL, a verb being a piece of its own.
AuthorizeFormat ==
    << "%s", "?response_type=code&redirect_uri=", "%s",
       "&client_id=", "%s", "&scope=", "%s" >>

\* ESI.GetAuthorizeURL that passes the client id before the callback URL.
GetAuthorizeURL_idFirst ==
    /\ UNCHANGED <<now, Local, esi, callers, cache, AccessToken, RefreshToken, fetched, replaced>>
    /\ IF esi.ClientID = "" \/ esi.ClientSecret = "" \/ esi.ClientCallbackURL = ""
       THEN last' = Result("GetAuthorizeURL", "", 0, Nil, Nil, TRUE)
       ELSE last' = Result("GetAuthorizeURL",
                           Join(SprintfS(AuthorizeFormat,
                                         << AuthorizeURL, esi.ClientID,
                                            esi.ClientCallbackURL, esi.Scope >>)),
                           0, Nil, Nil, FALSE)

\* ESI.GetAuthorizeURL: last.url is the string returned.
GetAuthorizeURL ==
    /\ UNCHANGED <<now, Local, esi, callers, cache, AccessToken, RefreshToken, fetched, replaced>>
    /\ IF esi.ClientID = "" \/ esi.ClientSecret = "" \/ esi.ClientCallbackURL = ""
       THEN last' = Result("GetAuthorizeURL", "", 0, Nil, Nil, TRUE)
       ELSE last' = Result("GetAuthorizeURL",
                           Join(SprintfS(AuthorizeFormat,
                                         << AuthorizeURL, esi.ClientCallbackURL,
                                            esi.ClientID, esi.Scope >>)),
                           0, Nil, Nil, FALSE)

\* The calls of the exported methods, and the passing of time.
Next ==
    \/ \E call \in GetCalls : Get(call)
    \/ \E path \in PostPaths : Post(path)
    \/ WhoAmI
    \/ \E code \in Codes : Authenticate(code)
    \/ GetAuthorizeURL
    \/ ClearCache
    \/ Tick

Spec == Init /\ [][Next]_vars

(***************************************************************************)
(* The cache on its own: get and set called directly, as code of the       *)
(* package (its tests) can call them, on the URLs that Get can request.    *)
(***************************************************************************)
URLs == { GetURL[call] : call \in {c \in GetCalls : ~GetURLFails[c]} }

CacheGet(u) ==
    LET looked == get(cache, u, now)
    IN  /\ cache' = looked.cache
        /\ last' = Result("get", u, 0, Nil, looked.data, FALSE)
        /\ UNCHANGED <<now, Local, esi, callers, AccessToken, RefreshToken, fetched, replaced>>

CacheSet(u, d, h) ==
    LET stored == set(cache, u, d, h, Local)
    IN  /\ cache' = stored.cache
        /\ last' = Result("set", u, 0, Nil, d, stored.err)
        /\ replaced' = Found(cache, u)
        /\ UNCHANGED <<now, Local, esi, callers, AccessToken, RefreshToken, fetched>>

CacheNext ==
    \/ \E u \in URLs : CacheGet(u)
    \/ \E u \in URLs, d \in Docs, h \in ExpiresValues : CacheSet(u, d, h)
    \/ ClearCache
    \/ Tick

CacheSpec == Init /\ [][CacheNext]_vars

(***************************************************************************)
(* The client of src/lib.go (package main): it has no cache and no Post,   *)
(* its Get takes a path without format arguments, and Get and WhoAmI add   *)
(* their headers themselves.  New is called with any client data, and the  *)
(* caller may have assigned the Scope field.                               *)
(***************************************************************************)
LibConfigs ==
    { [New(id, secret, callback) EXCEPT !.Scope = scope] :
        id \in {"", "clientID"}, secret \in {"", "clientSecret"},
        callback \in {"", "clientCallbackURL"}, scope \in {"", "publicData"} }

LibInit ==
    /\ now = 0
    /\ Local \in Locations
    /\ cache = EmptyCache
    /\ AccessToken = ""
    /\ RefreshToken = ""
    /\ last = Result("New", "", 0, Nil, Nil, FALSE)
    /\ fetched = EmptyCache
    /\ replaced = NoEntry
    /\ esi \in LibConfigs
    /\ callers = [g \in Goroutines |-> Idle]

\* ESI.Get of lib.go
LibGet(path) ==
    LET url == PostURL[path]
        auth == IF AccessToken # "" THEN "Bearer" \o AccessToken ELSE Nil
    IN  /\ UNCHANGED <<now, Local, esi, callers, cache, AccessToken, RefreshToken, fetched, replaced>>
        /\ IF PostURLFails[path]
           THEN last' = Result("Get", url, 0, Nil, Nil, TRUE)
           ELSE \E resp \in UncachedResponses :
                IF resp.err \/ resp.body = NotJSON
                THEN last' = Result("Get", url, 1, auth, Nil, TRUE)
                ELSE last' = Result("Get", url, 1, auth, resp.body, FALSE)

\* ESI.WhoAmI of lib.go
LibWhoAmI ==
    /\ UNCHANGED <<now, Local, esi, callers, cache, AccessToken, RefreshToken, fetched, replaced>>
    /\ \E resp \in UncachedResponses :
         IF resp.err \/ resp.body = NotJSON
         THEN last' = Result("WhoAmI", VerifyURL, 1, "Bearer " \o AccessToken, Nil, TRUE)
         ELSE last' = Result("WhoAmI", VerifyURL, 1, "Bearer " \o AccessToken, resp.body, FALSE)

LibNext ==
    \/ \E path \in PostPaths : LibGet(path)
    \/ LibWhoAmI
    \/ \E code \in Codes : Authenticate(code)
    \/ GetAuthorizeURL

LibSpec == LibInit /\ [][LibNext]_vars

(***************************************************************************)
(* getExpiration on its own, as TestGetExpiration calls it: texts of the   *)
(* layout with an abbreviation time.Local may know (EST), with UTC and     *)
(* GMT, and with one no location knows (XYZ); a text without the zone      *)
(* field; a text of another layout; and the empty string.                  *)
(***************************************************************************)
ParseZones == Zones \cup {"UTC", "XYZ"}

ParseInputs ==
    [form : {"rfc1123"}, wall : 0..MaxWall, zone : ParseZones]
    \cup {NoExpires, BadExpires, [form |-> "no zone", wall |-> 0, zone |-> ""]}

Parse(s) ==
    LET e == getExpiration(s, Local)
    IN  /\ last' = [op |-> "getExpiration", s |-> s, t |-> e.t, err |-> e.err]
        /\ UNCHANGED <<now, Local, esi, callers, cache, AccessToken, RefreshToken, fetched, replaced>>

ParseNext == \E s \in ParseInputs : Parse(s)

ParseSpec == Init /\ [][ParseNext]_vars

(***************************************************************************)
(* Several goroutines on one client.  Nothing in cache.go or in ESI locks, *)
(* so a Get runs as the steps of its code and another goroutine may run    *)
(* between any two of them:                                                *)
(*   lookup    Cache.get: entry, ok := c[u]                             *)
(*   check     Cache.get: entry.Expires.Before(time.Now().UTC())           *)
(*   delete    Cache.get: delete(c, u) is about to start                  *)
(*   deleting  the runtime is inside the delete (the map is flagged as     *)
(*             being written)                                              *)
(*   fetch     ESI.Get: e.client.Do and gabs.ParseJSONBuffer               *)
(*   store     Cache.set: getExpiration, then c[u] = entry is about to  *)
(*             start                                                       *)
(*   storing   the runtime is inside the assignment                        *)
(* A goroutine keeps in c which map its Cache method was called on: "cur"  *)
(* while that is still the map of e.cache, "old" once ClearCache has put   *)
(* another in its place.  A map access that starts while another           *)
(* goroutine is inside a write of the same map is a data race: the         *)
(* runtime either stops the process ("fatal error: concurrent map writes", *)
(* "concurrent map read and map write") or does not notice.                *)
(***************************************************************************)
InWrite(g) == callers[g].pc \in {"deleting", "storing"}

Races(g) == \E h \in Goroutines \ {g} : InWrite(h) /\ callers[h].c = "cur"

Fatal == callers' = [g \in Goroutines |-> [Idle EXCEPT !.pc = "fatal"]]

At(g, pc) == callers' = [callers EXCEPT ![g] = pc]

\* ESI.Get is called.
CallGet(g, u) ==
    /\ callers[g].pc = "idle"
    /\ At(g, [Idle EXCEPT !.pc = "lookup", !.url = u])
    /\ UNCHANGED <<now, Local, esi, cache, AccessToken, RefreshToken, last, fetched, replaced>>

\* Cache.get: entry, ok := c[u]
Lookup(g) ==
    /\ callers[g].pc = "lookup"
    /\ UNCHANGED <<now, Local, esi, cache, AccessToken, RefreshToken, last, fetched, replaced>>
    /\ \/ Races(g) /\ Fatal
       \/ IF callers[g].url \in DOMAIN cache
          THEN At(g, [callers[g] EXCEPT !.pc = "check", !.c = "cur",
                                        !.entry = cache[callers[g].url]])
          ELSE At(g, [callers[g] EXCEPT !.pc = "fetch"])

\* Cache.get: the expiration check, and the return of a live entry's data.
CheckExpiry(g) ==
    /\ callers[g].pc = "check"
    /\ UNCHANGED <<now, Local, esi, cache, AccessToken, RefreshToken, last, fetched, replaced>>
    /\ IF Before(callers[g].entry.Expires, now)
       THEN At(g, [callers[g] EXCEPT !.pc = "delete"])
       ELSE At(g, Idle)

\* Cache.get: delete(c, u) starts.
BeginDelete(g) ==
    /\ callers[g].pc = "delete"
    /\ UNCHANGED <<now, Local, esi, cache, AccessToken, RefreshToken, last, fetched, replaced>>
    /\ \/ callers[g].c = "cur" /\ Races(g) /\ Fatal
       \/ At(g, [callers[g] EXCEPT !.pc = "deleting"])

\* Cache.get: delete(c, u) ends, and get returns nil.
EndDelete(g) ==
    /\ callers[g].pc = "deleting"
    /\ cache' = IF callers[g].c = "cur" THEN Delete(cache, callers[g].url) ELSE cache
    /\ At(g, [Idle EXCEPT !.pc = "fetch", !.url = callers[g].url])
    /\ UNCHANGED <<now, Local, esi, AccessToken, RefreshToken, last, fetched, replaced>>

\* ESI.Get: the transport call and the parse of the body.
Do(g) ==
    /\ callers[g].pc = "fetch"
    /\ UNCHANGED <<now, Local, esi, cache, AccessToken, RefreshToken, last, fetched, replaced>>
    /\ \E resp \in Responses :
         IF resp.err \/ resp.body = NotJSON
         THEN At(g, Idle)
         ELSE At(g, [callers[g] EXCEPT !.pc = "store", !.doc = resp.body,
                                       !.entry = resp.Expires])

\* Cache.set: getExpiration, and the start of c[u] = entry.
BeginStore(g) ==
    LET e == getExpiration(callers[g].entry, Local)
    IN  /\ callers[g].pc = "store"
        /\ UNCHANGED <<now, Local, esi, cache, AccessToken, RefreshToken, last, fetched, replaced>>
        /\ IF e.err
           THEN At(g, Idle)
           ELSE \/ Races(g) /\ Fatal
                \/ At(g, [callers[g] EXCEPT !.pc = "storing", !.c = "cur",
                                             !.entry = CacheEntry(callers[g].doc, e.t)])

\* Cache.set: c[u] = entry ends, and Get returns the document.
EndStore(g) ==
    /\ callers[g].pc = "storing"
    /\ cache' = IF callers[g].c = "cur"
                THEN Store(cache, callers[g].url, callers[g].entry)
                ELSE cache
    /\ At(g, Idle)
    /\ UNCHANGED <<now, Local, esi, AccessToken, RefreshToken, last, fetched, replaced>>

\* ESI.ClearCache, called by a goroutine that is in no Get: e.cache is set
\* to a new map, and the Cache methods under way are left with the old.
CallClearCache(g) ==
    /\ callers[g].pc = "idle"
    /\ cache' = EmptyCache
    /\ callers' = [h \in Goroutines |->
                      IF callers[h].c = "cur"
                      THEN [callers[h] EXCEPT !.c = "old"]
                      ELSE callers[h]]
    /\ UNCHANGED <<now, Local, esi, AccessToken, RefreshToken, last, fetched, replaced>>

\* The clock advances, also in the middle of a call.
ConcTick ==
    /\ now < MaxTime
    /\ now' = now + 1
    /\ UNCHANGED <<Local, esi, callers, cache, AccessToken, RefreshToken, last, fetched, replaced>>

ConcNext ==
    \/ \E g \in Goroutines, u \in URLs : CallGet(g, u)
    \/ \E g \in Goroutines : Lookup(g)
    \/ \E g \in Goroutines : CheckExpiry(g)
    \/ \E g \in Goroutines : BeginDelete(g)
    \/ \E g \in Goroutines : EndDelete(g)
    \/ \E g \in Goroutines : Do(g)
    \/ \E g \in Goroutines : BeginStore(g)
    \/ \E g \in Goroutines : EndStore(g)
    \/ \E g \in Goroutines : CallClearCache(g)
    \/ ConcTick

ConcSpec == Init /\ [][ConcNext]_vars

(***************************************************************************)
(* Claims.                                                                 *)
(***************************************************************************)

\* A step is a call of op when it leaves the name op in last: every call
\* writes its own name there, and the clock stands still during a call, so
\* that a Tick, which keeps last, is no call.
Called(op) == last'.op = op /\ now' = now

\* C1: a Get that finds the cache empty and succeeds with a response whose
\* Expires header parses to a time after now makes exactly one transport
\* call and stores the response; from then on, until that expiry or a
\* ClearCache, every Get of the same formatted URL makes no transport call
\* and returns the stored document.
C1_CachedGetMakesNoTransportCall ==
    [][Called("Get") =>
         LET u == last'.url
         IN  /\ (/\ cache = EmptyCache
                 /\ ~last'.err
                 /\ u \in DOMAIN cache'
                 /\ now < cache'[u].Expires)
                => /\ last'.calls = 1
                   /\ u \in DOMAIN fetched'
                   /\ fetched'[u] = CacheEntry(last'.doc, cache'[u].Expires)
             /\ (u \in DOMAIN fetched /\ now < fetched[u].Expires)
                => /\ last'.calls = 0
                   /\ ~last'.err
                   /\ last'.doc = fetched[u].Data
      ]_vars

\* A Get answered from the cache, after the clock has moved on, before the
\* expiry of the response that an earlier Get stored.
C1_Witness ==
    /\ last.op = "Get"
    /\ last.calls = 0
    /\ now > 0
    /\ last.url \in DOMAIN fetched
    /\ now < fetched[last.url].Expires
    /\ last.doc = fetched[last.url].Data

\* C2 as stated: Cache.get on a present entry drops it and returns nil
\* whenever its expiry is at or before now, and returns the document and
\* keeps the entry only when its expiry is after now.
C2_MissAtOrBeforeNow ==
    [][(Called("get") /\ last'.url \in DOMAIN cache) =>
         LET u == last'.url
         IN  IF cache[u].Expires <= now
             THEN last'.doc = Nil /\ u \notin DOMAIN cache'
             ELSE last'.doc = cache[u].Data /\ cache' = cache
      ]_vars

\* C2 as amended: Cache.get on a present entry drops it and returns nil
\* when its expiry is before now; when its expiry is now or later it
\* returns the document and keeps the entry.
C2_MissBeforeNow ==
    [][(Called("get") /\ last'.url \in DOMAIN cache) =>
         LET u == last'.url
         IN  IF cache[u].Expires < now
             THEN last'.doc = Nil /\ cache' = Delete(cache, u)
             ELSE last'.doc = cache[u].Data /\ cache' = cache
      ]_vars

\* Cache.get has returned the document of an entry that expires now.
C2_Witness ==
    /\ last.op = "get"
    /\ last.url \in DOMAIN cache
    /\ cache[last.url].Expires = now
    /\ last.doc = cache[last.url].Data

\* C7: Cache.set with an Expires value that does not parse returns the
\* error and leaves the map as it was, an entry already under the key
\* included; and Cache.set returns no error otherwise.
C7_FailedSetKeepsCache ==
    [][Called("set") =>
         /\ last'.err => cache' = cache
         /\ \A h \in ExpiresValues :
              CacheSet(last'.url, last'.doc, h) =>
                 (last'.err <=> getExpiration(h, Local).err)
      ]_vars

\* Cache.set has failed on a key that held the entry of another document,
\* and the entry is still there.
C7_Witness ==
    /\ last.op = "set"
    /\ last.err
    /\ replaced # NoEntry
    /\ replaced.Data # last.doc
    /\ last.url \in DOMAIN cache
    /\ cache[last.url] = replaced

\* C8: Cache.get right after a successful Cache.set of the same URL finds
\* the entry, and if its expiry is after now returns the very document
\* that was set and leaves the map as it was.
C8_SetThenGet ==
    [][(/\ Called("get")
        /\ last.op = "set"
        /\ ~last.err
        /\ last'.url = last.url) =>
         /\ last.url \in DOMAIN cache
         /\ now < cache[last.url].Expires =>
              (last'.doc = last.doc /\ cache' = cache)
      ]_vars

\* Cache.get has returned the document of an entry that has not expired.
C8_Witness ==
    /\ last.op = "get"
    /\ last.doc \in Docs
    /\ last.url \in DOMAIN cache
    /\ cache[last.url].Data = last.doc
    /\ now < cache[last.url].Expires

\* C9: a successful Cache.set leaves under its URL exactly the document
\* passed and the expiry parsed from the header passed, whatever entry was
\* there before, and touches no other entry.
C9_LastWriteWins ==
    [][(Called("set") /\ ~last'.err) =>
         LET u == last'.url
         IN  /\ DOMAIN cache' = DOMAIN cache \cup {u}
             /\ cache'[u].Data = last'.doc
             /\ \A h \in ExpiresValues :
                  CacheSet(u, last'.doc, h) =>
                     cache'[u].Expires = getExpiration(h, Local).t
             /\ \A v \in DOMAIN cache \ {u} : cache'[v] = cache[v]
      ]_vars

\* Cache.set has replaced the entry of another document by one that
\* expires earlier.
C9_Witness ==
    /\ last.op = "set"
    /\ ~last.err
    /\ replaced # NoEntry
    /\ replaced.Data # last.doc
    /\ cache[last.url].Data = last.doc
    /\ cache[last.url].Expires < replaced.Expires

\* C3: a Get of a URL whose cached entry expired before now does not answer
\* from the entry: Cache.get drops it and returns nil, so the Get makes a
\* transport call; the key is absent afterwards when the fetch fails, and
\* when the fetch succeeds Cache.set finds no entry under the key and what
\* is cached afterwards, if anything, is the entry of the new response.
C3_ExpiredEntryIsDroppedAndRefetched ==
    [][(/\ Called("Get")
        /\ last'.url \in DOMAIN cache
        /\ cache[last'.url].Expires < now) =>
         LET u == last'.url
         IN  /\ last'.calls = 1
             /\ last'.err => u \notin DOMAIN cache'
             /\ ~last'.err => replaced' = NoEntry
             /\ u \in DOMAIN cache' =>
                  /\ cache'[u].Data = last'.doc
                  /\ u \in DOMAIN fetched' /\ fetched'[u] = cache'[u]
      ]_vars

\* A Get of a URL whose stored response had expired has gone to the
\* transport, the fetch has failed, and the expired entry is gone.
C3_Witness ==
    /\ last.op = "Get"
    /\ last.calls = 1
    /\ last.err
    /\ last.url \in DOMAIN fetched
    /\ fetched[last.url].Expires < now
    /\ last.url \notin DOMAIN cache

\* C4: ClearCache leaves the cache empty whatever it held; a URL is a key
\* of the cache only if a Get has stored a response for it since the last
\* ClearCache; and a Get of a URL for which none has been stored since
\* then makes a transport call.
C4_ClearCacheDiscardsEverything ==
    [][/\ Called("ClearCache") => cache' = EmptyCache
       /\ DOMAIN cache' \subseteq DOMAIN fetched'
       /\ (/\ Called("Get")
           /\ last'.url \in URLs
           /\ last'.url \notin DOMAIN fetched) => last'.calls = 1
      ]_vars

\* ClearCache has run after the clock moved on and the cache is empty.
C4_Witness ==
    /\ last.op = "ClearCache"
    /\ now > 0
    /\ cache = EmptyCache
    /\ fetched = EmptyCache

\* C5: a Post leaves the cache map exactly as it was, whether it succeeds
\* or fails, and a Post to a URL (a string http.NewRequest accepts) makes
\* a transport call, also when the cache holds an unexpired entry for
\* that URL.
C5_PostBypassesCache ==
    [][Called("Post") =>
         /\ cache' = cache
         /\ last'.url \in URLs => last'.calls = 1
      ]_vars

\* A Post has gone to the transport while the cache held an unexpired
\* entry for the same URL.
C5_Witness ==
    /\ last.op = "Post"
    /\ last.calls = 1
    /\ last.url \in DOMAIN cache
    /\ now < cache[last.url].Expires

\* The responses with a JSON body whose Expires header getExpiration cannot
\* parse, per time.Local.
UnparsableExpires ==
    [loc \in Locations |->
        {r \in Responses :
            ~r.err /\ r.body \in Docs /\ getExpiration(r.Expires, loc).err}]

\* C6: when the transport call of a Get succeeds and the body parses but
\* the Expires header is absent or malformed, the Get returns the fetched
\* document and no error, the map stays as Cache.get left it, with no
\* entry for the URL; and as only a fetching Get of a URL adds its key, the
\* next Get of that URL finds no entry and makes a transport call again.
C6_UnparsableExpiresSkipsCacheWrite ==
    [][/\ (Called("Get") /\ last'.calls = 1) =>
            LET u == last'.url
                c == get(cache, u, now).cache
            IN  \A resp \in UnparsableExpires[Local] :
                  \/ /\ last'.doc = resp.body
                     /\ ~last'.err
                     /\ cache' = c
                     /\ u \notin DOMAIN cache'
                  \/ ~Fetch(u, c, resp)
       /\ \A u \in DOMAIN cache' \ DOMAIN cache :
            Called("Get") /\ last'.url = u /\ last'.calls = 1
       /\ (/\ Called("Get")
           /\ last'.url \in URLs
           /\ last'.url \notin DOMAIN cache) => last'.calls = 1
      ]_vars

\* A Get has fetched and returned a document and the cache holds no entry
\* for its URL.
C6_Witness ==
    /\ last.op = "Get"
    /\ last.calls = 1
    /\ ~last.err
    /\ last.doc \in Docs
    /\ last.url \notin DOMAIN cache

\* C10: whenever Authenticate returns no error AccessToken is non-empty
\* afterwards, and no step takes AccessToken from non-empty to empty.
C10_AuthenticatedAfterSuccess ==
    [][/\ (Called("Authenticate") /\ ~last'.err) => AccessToken' # ""
       /\ AccessToken # "" => AccessToken' # ""
      ]_vars

\* C11: Authenticate returns an error when the transport fails, when the
\* body is empty, when the status is not 200, and when the body does not
\* unmarshal into authenticateResponse, and then both tokens are what they
\* were; in every other case it returns no error and both tokens are the
\* two values of the response body.
C11_AuthenticateFailsOrOverwrites ==
    [][Called("Authenticate") =>
         \A code \in Codes, resp \in AuthResponses :
            Exchange(code, resp) =>
               IF \/ resp.err # Nil
                  \/ resp.body.kind = "empty"
                  \/ resp.status # StatusOK
                  \/ resp.body.kind = "mismatch"
               THEN /\ last'.err
                    /\ AccessToken' = AccessToken
                    /\ RefreshToken' = RefreshToken
               ELSE /\ ~last'.err
                    /\ AccessToken' = resp.body.access_token
                    /\ RefreshToken' = resp.body.refresh_token
      ]_vars

\* Authenticate has failed on a client that held tokens, and it still holds
\* them.
C11_Witness ==
    /\ last.op = "Authenticate"
    /\ last.err
    /\ AccessToken = "tokA"
    /\ RefreshToken = "refA"

\* C12: the request of every Get, Post and WhoAmI that reaches the
\* transport carries an Authorization header exactly when AccessToken is
\* not empty, and the header is then "Bearer " followed by the token.
C12_AuthorizationIffAuthenticated ==
    [][((Called("Get") \/ Called("Post") \/ Called("WhoAmI")) /\ last'.calls = 1) =>
         last'.auth = (IF AccessToken # "" THEN "Bearer " \o AccessToken ELSE Nil)
      ]_vars

\* C13: GetAuthorizeURL returns an error and the empty string when the
\* client id, the client secret or the callback URL is empty; otherwise it
\* returns no error and the authorize endpoint followed by response_type,
\* redirect_uri, client_id and scope in this order, the values as they
\* are; and it changes nothing of the client.
C13_AuthorizeURL ==
    [][Called("GetAuthorizeURL") =>
         /\ <<cache, AccessToken, RefreshToken, esi>>' = <<cache, AccessToken, RefreshToken, esi>>
         /\ IF esi.ClientID = "" \/ esi.ClientSecret = "" \/ esi.ClientCallbackURL = ""
            THEN last'.err /\ last'.url = ""
            ELSE /\ ~last'.err
                 /\ last'.url = "https://login.eveonline.com/oauth/authorize"
                                 \o "?response_type=code"
                                 \o "&redirect_uri=" \o esi.ClientCallbackURL
                                 \o "&client_id=" \o esi.ClientID
                                 \o "&scope=" \o esi.Scope
      ]_vars

\* GetAuthorizeURL has returned a URL for a client with a scope.
C13_Witness ==
    /\ last.op = "GetAuthorizeURL"
    /\ ~last.err
    /\ esi.Scope # ""
    /\ last.url # ""

\* The zone abbreviations with a meaning, and the offset from UTC, in
\* ticks, that each stands for.
Abbreviations == {"GMT", "UTC", "EST"}
Stands(zone) == IF zone = "EST" THEN 0 - 1 ELSE 0

\* C14: getExpiration returns, for a text of the layout with a timezone
\* abbreviation, no error and the instant the text denotes, which is its
\* wall clock less the offset its abbreviation stands for; and for every
\* other text, one with a zone token that is no abbreviation included, it
\* returns an error.
C14_ParsesToDenotedInstant ==
    [][Called("getExpiration") =>
         LET s == last'.s
         IN  IF s.form = "rfc1123" /\ s.zone \in Abbreviations
             THEN ~last'.err /\ last'.t = s.wall - Stands(s.zone)
             ELSE last'.err
      ]_vars

\* C15: a call of Get, Post, WhoAmI or Authenticate makes at most one
\* transport call; a Get that returns an error returns no document, has
\* stored nothing, and leaves the cache without an entry for its URL.
C15_SingleAttempt ==
    [][/\ (Called("Get") \/ Called("Post") \/ Called("WhoAmI") \/ Called("Authenticate"))
            => last'.calls <= 1
       /\ (Called("Get") /\ last'.err) =>
            /\ last'.doc = Nil
            /\ last'.url \notin DOMAIN cache'
            /\ DOMAIN cache' \subseteq DOMAIN cache
            /\ fetched' = fetched
      ]_vars

\* A Get has made its one transport call and failed while the cache held
\* the response of another URL; its own URL has no entry.
C15_Witness ==
    /\ last.op = "Get"
    /\ last.calls = 1
    /\ last.err
    /\ cache # EmptyCache
    /\ last.url \notin DOMAIN cache

\* C16: Cache.get of an absent key, or of an entry whose expiry is not
\* before now, leaves the map as it was, and otherwise removes that one
\* key; Cache.get and Cache.set leave every other key and its entry as
\* they were; and an entry, expired or not, goes or changes only in a
\* Cache.get or Cache.set of its own URL or in a ClearCache.
C16_OnlyTheRequestedKeyChanges ==
    [][/\ Called("get") =>
            LET u == last'.url
            IN  IF u \in DOMAIN cache /\ cache[u].Expires < now
                THEN cache' = Delete(cache, u)
                ELSE cache' = cache
       /\ (Called("get") \/ Called("set")) =>
            \A v \in (DOMAIN cache \cup DOMAIN cache') \ {last'.url} :
               v \in DOMAIN cache /\ v \in DOMAIN cache' /\ cache'[v] = cache[v]
       /\ \A v \in DOMAIN cache :
            (v \notin DOMAIN cache' \/ cache'[v] # cache[v]) =>
               \/ Called("ClearCache")
               \/ (Called("get") \/ Called("set")) /\ last'.url = v
      ]_vars

\* Cache.get of one URL has run while the entry of another URL was
\* expired, and that entry is still in the map.
C16_Witness ==
    /\ last.op = "get"
    /\ \E v \in DOMAIN cache : v # last.url /\ cache[v].Expires < now

\* C17: Get, Post, WhoAmI, GetAuthorizeURL and ClearCache leave both
\* tokens as they were, so that only Authenticate changes a token; no step
\* changes Version, ClientID, ClientSecret, ClientCallbackURL, UserAgent
\* or Scope; Authenticate, Post, WhoAmI and GetAuthorizeURL leave the cache
\* as it was and a Get touches no key but its own, so that only ClearCache
\* discards the cache, and it leaves an empty one.
C17_OnlyAuthenticateAndClearCacheMutate ==
    [][/\ ( Called("Get") \/ Called("Post") \/ Called("WhoAmI")
          \/ Called("GetAuthorizeURL") \/ Called("ClearCache") )
            => AccessToken' = AccessToken /\ RefreshToken' = RefreshToken
       /\ (AccessToken' # AccessToken \/ RefreshToken' # RefreshToken)
            => Called("Authenticate")
       /\ esi' = esi
       /\ esi.Version = Version
       /\ ( Called("Authenticate") \/ Called("Post") \/ Called("WhoAmI")
          \/ Called("GetAuthorizeURL") ) => cache' = cache
       /\ Called("Get") =>
            \A v \in (DOMAIN cache \cup DOMAIN cache') \ {last'.url} :
               v \in DOMAIN cache /\ v \in DOMAIN cache' /\ cache'[v] = cache[v]
       /\ Called("ClearCache") => cache' = EmptyCache
      ]_vars

\* Authenticate has stored tokens and the cache still holds its entries.
C17_Witness ==
    /\ last.op = "Authenticate"
    /\ ~last.err
    /\ AccessToken # ""
    /\ cache # EmptyCache

\* A goroutine is inside a Cache method from its lookup to the end of its
\* delete, and from the start to the end of its assignment.
InCache(g) == callers[g].pc \in {"check", "delete", "deleting", "storing"}

\* C18: with several goroutines in Get and ClearCache the accesses to the
\* cache are serialized: no two goroutines are inside a Cache method at
\* once, the process never stops on a concurrent map access, and the
\* delete of an eviction removes the entry its goroutine looked up, never
\* one written since.
C18_CacheAccessIsSerialized ==
    [][/\ \A g, h \in Goroutines : (g # h /\ InCache(g)) => ~InCache(h)
       /\ \A g \in Goroutines : callers'[g].pc # "fatal"
       /\ \A g \in Goroutines :
            (callers[g].pc = "deleting" /\ callers'[g].pc = "fetch"
               /\ callers[g].url \in DOMAIN cache /\ callers[g].c = "cur")
            => cache[callers[g].url] = callers[g].entry
      ]_vars

\* C19: every entry of the cache is, under its URL, the document and the
\* parsed Expires time of the latest response to a Get of that URL, since
\* the last ClearCache, that had a JSON body and an Expires header that
\* parses; and a Get answered from the cache returns that document.
C19_CacheHoldsLastFetchedResponse ==
    /\ \A u \in DOMAIN cache : u \in DOMAIN fetched /\ cache[u] = fetched[u]
    /\ (last.op = "Get" /\ last.calls = 0 /\ ~last.err) =>
          /\ last.url \in DOMAIN fetched
          /\ last.doc = fetched[last.url].Data

\* A Post has returned a document for a URL whose cached entry holds
\* another, while the cache also holds the response of a second URL.
C19_Witness ==
    /\ last.op = "Post"
    /\ last.doc \in Docs
    /\ last.url \in DOMAIN cache
    /\ cache[last.url].Data # last.doc
    /\ Cardinality(DOMAIN cache) = 2

\* C20: in every state, for every URL a Get would fetch, every JSON body
\* and every Expires header, the answer with status 200 and the answer
\* with an error status leave the same cache and return the same document
\* and the same error; and a Get that returned the document of an
\* error-status response has cached it when it stored anything.
C20_StatusDoesNotDecideCaching ==
    /\ \A u \in URLs :
          LET looked == get(cache, u, now)
          IN  looked.data = Nil =>
                \A d \in Docs, h \in ExpiresValues :
                   LET ok == Fetched(u, looked.cache, Response(StatusOK, d, h), Local)
                       bad == Fetched(u, looked.cache, Response(StatusBadRequest, d, h), Local)
                   IN  ok.cache = bad.cache /\ ok.doc = bad.doc /\ ok.err = bad.err
    /\ ( /\ last.op = "Get" /\ last.calls = 1 /\ ~last.err
         /\ last.status = StatusBadRequest
         /\ last.url \in DOMAIN cache )
          => cache[last.url].Data = last.doc

\* A Get has fetched a JSON document that came with an error status and
\* has cached it with an expiry ahead of the clock.
C20_Witness ==
    /\ last.op = "Get"
    /\ last.calls = 1
    /\ last.status = StatusBadRequest
    /\ last.url \in DOMAIN cache
    /\ cache[last.url].Data = last.doc
    /\ now < cache[last.url].Expires

====
